---- MODULE Spec2Model ----
(***************************************************************************)
(* Model of the Moodle forum scraper (src/src/forum_scraper.py).           *)
(*                                                                         *)
(* Three specifications share the module:                                  *)
(*   Spec / FairSpec  one run of main(): cookie prompt, URL prompts, one   *)
(*                    scrape_forum() per accepted URL, merge, save_to_file *)
(*   SpecExtract      extract_posts_from_discussion() stepped container by *)
(*                    container over every bounded discussion page         *)
(*   SpecExport       save_to_file() over every bounded result mapping     *)
(*                                                                         *)
(* Text is a tuple of one-character strings, so that prefixes, line breaks *)
(* and the concatenations of the export format are computed, not assumed.  *)
(* A dict is the sequence of its items in insertion order.                 *)
(***************************************************************************)
EXTENDS Integers, Sequences, FiniteSets

(***************************************************************************)
(* Bounds of the model                                                     *)
(***************************************************************************)
MaxInputs == 2      \* forum URLs entered before the prompt must get ""
MaxPages == 2       \* non-empty index pages of the forum of SpecCrawl
MaxRunPages == 1    \* non-empty index pages of a forum crawled by main (Spec)
MaxContainers == 2  \* post containers on one discussion page (SpecExtract)
MaxExportPosts == 1 \* posts in one exported mapping (SpecExport)

(***************************************************************************)
(* Text                                                                    *)
(***************************************************************************)
Rep(c, n) == [k \in 1..n |-> c]

startswith(s, prefix) ==
    /\ Len(s) >= Len(prefix)
    /\ SubSeq(s, 1, Len(prefix)) = prefix

RECURSIVE Concat(_)
Concat(ss) == IF ss = <<>> THEN <<>> ELSE Head(ss) \o Concat(Tail(ss))

NL == <<"\n">>
HasLineBreak(s) == \E k \in 1..Len(s) : s[k] \in {"\n", "\r"}

(***************************************************************************)
(* dict: items in insertion order; assigning an existing key keeps its     *)
(* position and replaces its value                                         *)
(***************************************************************************)
Keys(d) == [k \in 1..Len(d) |-> d[k].url]
HasKey(d, u) == \E k \in 1..Len(d) : d[k].url = u
Lookup(d, u) == LET k == CHOOSE k \in 1..Len(d) : d[k].url = u IN d[k].posts

\* mutant: an existing key keeps its first value (setdefault)
dict_set_KeepFirst(d, u, v) ==
    IF HasKey(d, u) THEN d ELSE Append(d, [url |-> u, posts |-> v])

dict_set(d, u, v) ==
    IF HasKey(d, u)
    THEN [k \in 1..Len(d) |-> IF d[k].url = u THEN [url |-> u, posts |-> v] ELSE d[k]]
    ELSE Append(d, [url |-> u, posts |-> v])

RECURSIVE dict_update(_, _)
dict_update(d, other) ==
    IF other = <<>> THEN d
    ELSE dict_update(dict_set(d, Head(other).url, Head(other).posts), Tail(other))

(***************************************************************************)
(* HTTP responses and get_page_content                                     *)
(***************************************************************************)
None == [ok |-> FALSE, els |-> <<>>]
Soup(els) == [ok |-> TRUE, els |-> els]

\* what session.get can produce for one URL: it raises (transport error or
\* non-2xx status), it ends on a login URL, or it delivers a body
Responses(bodies) ==
    {[raises |-> TRUE, login |-> FALSE, body |-> <<>>],
     [raises |-> FALSE, login |-> TRUE, body |-> <<>>]}
    \cup {[raises |-> FALSE, login |-> FALSE, body |-> b] : b \in bodies}

get_page_content(resp) ==
    IF resp.raises THEN None
    ELSE IF resp.login THEN None
    ELSE Soup(resp.body)

\* what get_page_content logs for the response: nothing but the URL, the
\* "Error fetching" line or the "redirected to login page" line
fetch_outcome(resp) ==
    IF resp.raises THEN "error" ELSE IF resp.login THEN "login" ELSE "ok"

\* an index page is the sequence of its matching anchors, already resolved
\* against base_url
get_discussion_links(soup) == soup.els

(***************************************************************************)
(* Markup of a discussion page: what the selectors of                      *)
(* extract_posts_from_discussion find in one post container                *)
(***************************************************************************)
Missing == [found |-> FALSE, text |-> <<>>]
El(t) == [found |-> TRUE, text |-> t]

NoTime == [found |-> FALSE, has_datetime |-> FALSE, datetime |-> <<>>]
TimeEl(has, d) == [found |-> TRUE, has_datetime |-> has, datetime |-> d]

NoHeader == [found |-> FALSE, title |-> Missing, author_link |-> Missing, date |-> NoTime]
Header(t, a, d) == [found |-> TRUE, title |-> t, author_link |-> a, date |-> d]

Container(c, h) == [post_content |-> c, header |-> h]

Whitespace == {" ", "\n", "\t", "\r"}

RECURSIVE lstrip(_)
lstrip(s) == IF s # <<>> /\ Head(s) \in Whitespace THEN lstrip(Tail(s)) ELSE s

RECURSIVE rstrip(_)
rstrip(s) ==
    IF s # <<>> /\ s[Len(s)] \in Whitespace THEN rstrip(SubSeq(s, 1, Len(s) - 1)) ELSE s

\* el.get_text(strip=True) of an element with one text node
get_text(el) == rstrip(lstrip(el.text))

\* date.get('datetime', '')
get_datetime(time) == IF time.has_datetime THEN time.datetime ELSE <<>>

ForumPost(t, c, a, d) == [title |-> t, content |-> c, author |-> a, date |-> d]

\* mutant: the time element is not among the required elements
extract_post_NoDateCheck(article) ==
    LET post_content == article.post_content
        header == article.header
    IN  IF post_content.found /\ header.found
        THEN IF header.title.found /\ header.author_link.found
             THEN [added |-> TRUE,
                   post |-> ForumPost(get_text(header.title),
                                      get_text(post_content),
                                      get_text(header.author_link),
                                      get_datetime(header.date)),
                   log |-> "info"]
             ELSE [added |-> FALSE, post |-> ForumPost(<<>>, <<>>, <<>>, <<>>),
                   log |-> "warning"]
        ELSE [added |-> FALSE, post |-> ForumPost(<<>>, <<>>, <<>>, <<>>),
              log |-> "none"]

\* one iteration of the loop over the post containers: the post appended (if
\* any) and the level of the message logged for the container ("info" for a
\* post found, "warning" for incomplete post data, "none" for no message)
extract_post(article) ==
    LET post_content == article.post_content
        header == article.header
    IN  IF post_content.found /\ header.found
        THEN IF /\ header.title.found
                /\ header.author_link.found
                /\ header.date.found
                /\ post_content.found
             THEN [added |-> TRUE,
                   post |-> ForumPost(get_text(header.title),
                                      get_text(post_content),
                                      get_text(header.author_link),
                                      get_datetime(header.date)),
                   log |-> "info"]
             ELSE [added |-> FALSE, post |-> ForumPost(<<>>, <<>>, <<>>, <<>>),
                   log |-> "warning"]
        ELSE [added |-> FALSE, post |-> ForumPost(<<>>, <<>>, <<>>, <<>>),
              log |-> "none"]

RECURSIVE extract_posts(_)
extract_posts(articles) ==
    IF articles = <<>> THEN <<>>
    ELSE LET r == extract_post(Head(articles))
         IN  (IF r.added THEN <<r.post>> ELSE <<>>) \o extract_posts(Tail(articles))

extract_posts_from_discussion(resp) ==
    LET soup == get_page_content(resp)
    IN  IF ~soup.ok THEN <<>> ELSE extract_posts(soup.els)

(***************************************************************************)
(* save_to_file: the text written to the output file                       *)
(***************************************************************************)
DiscussionRule == 80
PostRule == 40

L_URL == <<"D","i","s","c","u","s","s","i","o","n"," ","U","R","L",":"," ">>
L_Title == <<"T","i","t","l","e",":"," ">>
L_Author == <<"A","u","t","h","o","r",":"," ">>
L_Date == <<"D","a","t","e",":"," ">>
L_Content == <<"C","o","n","t","e","n","t",":">>

\* mutant: the content follows its label on the same line
write_post_ContentInline(post) ==
    Concat(<< L_Title, post.title, NL,
              L_Author, post.author, NL,
              L_Date, post.date, NL,
              L_Content, <<" ">>, post.content, NL,
              NL, Rep("-", PostRule), NL, NL >>)

write_post(post) ==
    Concat(<< L_Title, post.title, NL,
              L_Author, post.author, NL,
              L_Date, post.date, NL,
              L_Content, NL, post.content, NL,
              NL, Rep("-", PostRule), NL, NL >>)

write_discussion(url, posts) ==
    Concat(<< NL, Rep("=", DiscussionRule), NL,
              L_URL, url, NL,
              Rep("=", DiscussionRule), NL, NL >>)
    \o Concat([k \in 1..Len(posts) |-> write_post(posts[k])])

save_to_file(discussions) ==
    Concat([k \in 1..Len(discussions) |->
              write_discussion(discussions[k].url, discussions[k].posts)])

NoFile == [written |-> FALSE, text |-> <<>>]
File(t) == [written |-> TRUE, text |-> t]

(***************************************************************************)
(* State                                                                   *)
(***************************************************************************)
VARIABLES
    pc,                   \* position of main(), see PCs
    moodle_session,       \* main: the cookie value entered
    entered,              \* history: every forum_url answer, in order
    invoked,              \* history: base_url of every scraper that ran scrape_forum
    reported,             \* history: forum URLs logged "No discussions were found"
    base_url,             \* MoodleForumScraper.base_url of the running scraper
    forumP,               \* the forum being crawled: its number of non-empty index pages
    page,                 \* scrape_forum: page
    discussion_links,     \* scrape_forum: discussion_links of the current page
    link_i,               \* scrape_forum: position of the for loop in discussion_links
    all_discussions,      \* scrape_forum: all_discussions
    discussions,          \* main: value returned by scrape_forum
    main_all_discussions, \* main: all_discussions
    file,                 \* the output file
    saveCalls,            \* history: calls of save_to_file
    fetchCalls,           \* history: calls of get_page_content in this crawl
    indexLog,             \* history: page numbers of the index fetches of this crawl
    linksSeen,            \* history: discussion links found in this crawl
    lastEvent,            \* history: last request-side event: "index", "disc", "sleep"
    lastFetch,            \* history: outcome of the last get_page_content, see fetch_outcome
    recOrder,             \* history: discussion URLs by first non-empty recording
    recLast,              \* history: posts of the last non-empty recording per URL
    discOrder,            \* history: discussion URLs by first discovery on an index page
    x_pc, x_resp, x_k, x_posts, x_log,   \* SpecExtract
    e_pc, e_discussions, e_file          \* SpecExport

mainVars == << pc, moodle_session, entered, invoked, reported, base_url, forumP,
               page, discussion_links, link_i, all_discussions, discussions,
               main_all_discussions, file, saveCalls, fetchCalls, indexLog,
               linksSeen, lastEvent, lastFetch, recOrder, recLast, discOrder >>
extractVars == << x_pc, x_resp, x_k, x_posts, x_log >>
exportVars == << e_pc, e_discussions, e_file >>
vars == << mainVars, extractVars, exportVars >>

PCs == {"input_cookie", "input_url", "fetch_index", "visit", "sleep", "returned",
        "loop_ended", "done", "cancelled", "failed"}

(***************************************************************************)
(* Inputs of the run                                                       *)
(***************************************************************************)
http == <<"h","t","t","p",":","/","/">>
https == <<"h","t","t","p","s",":","/","/">>

Cookies == {<<>>, <<"c">>}
ForumInputs == {<<>>, http \o <<"a">>, https \o <<"b">>, <<"w","w","w",".","c">>}

DiscussionURLs == {<<"u">>, <<"v">>}

RECURSIVE SeqsUpTo(_, _)
SeqsUpTo(S, n) ==
    IF n = 0 THEN {<<>>}
    ELSE LET shorter == SeqsUpTo(S, n - 1)
         IN  shorter \cup {Append(q, x) : q \in {r \in shorter : Len(r) = n - 1}, x \in S}

\* what an index page can list: some of the discussions, each once, in any order
LinkLists ==
    {q \in SeqsUpTo(DiscussionURLs, Cardinality(DiscussionURLs)) :
        /\ q # <<>>
        /\ \A j, k \in 1..Len(q) : j # k => q[j] # q[k]}

\* the index page number k of a forum with P non-empty pages
IndexBodies(k, P) == IF k < P THEN LinkLists ELSE {<<>>}

CompleteA == Container(El(<<"x">>), Header(El(<<"t">>), El(<<"a">>), TimeEl(TRUE, <<"d">>)))
CompleteB == Container(El(<<"y">>), Header(El(<<"t">>), El(<<"a">>), TimeEl(FALSE, <<>>)))
NoAuthor == Container(El(<<"x">>), Header(El(<<"t">>), Missing, TimeEl(TRUE, <<"d">>)))

CrawlBodies == {<<>>, <<CompleteA>>, <<CompleteB>>, <<NoAuthor>>}

(***************************************************************************)
(* main() and MoodleForumScraper.scrape_forum()                            *)
(***************************************************************************)
ExtractIdle ==
    /\ x_pc = "off" /\ x_resp = [raises |-> TRUE, login |-> FALSE, body |-> <<>>]
    /\ x_k = 0 /\ x_posts = <<>> /\ x_log = <<>>

ExportIdle == e_pc = "off" /\ e_discussions = <<>> /\ e_file = NoFile

MainIdle ==
    /\ pc = "input_cookie"
    /\ moodle_session = <<>>
    /\ entered = <<>> /\ invoked = <<>> /\ reported = <<>>
    /\ base_url = <<>>
    /\ forumP = 0
    /\ page = 0
    /\ discussion_links = <<>> /\ link_i = 0
    /\ all_discussions = <<>> /\ discussions = <<>> /\ main_all_discussions = <<>>
    /\ file = NoFile /\ saveCalls = 0
    /\ fetchCalls = 0 /\ indexLog = <<>> /\ linksSeen = 0
    /\ lastEvent = "none" /\ lastFetch = "none"
    /\ recOrder = <<>> /\ recLast = [u \in DiscussionURLs |-> <<>>]
    /\ discOrder = <<>>

Init == MainIdle /\ ExtractIdle /\ ExportIdle

crawlVars == << page, discussion_links, link_i, all_discussions, forumP, base_url >>
crawlHistory == << fetchCalls, indexLog, linksSeen, lastEvent, lastFetch,
                   recOrder, recLast, discOrder >>
driverVars == << moodle_session, entered, invoked, reported, discussions,
                 main_all_discussions, file, saveCalls >>

\* moodle_session = input(...); an empty cookie ends main at once
InputCookie ==
    /\ pc = "input_cookie"
    /\ \E c \in Cookies :
         /\ moodle_session' = c
         /\ pc' = IF c = <<>> THEN "done" ELSE "input_url"
    /\ UNCHANGED << entered, invoked, reported, discussions, main_all_discussions,
                    file, saveCalls, crawlVars, crawlHistory >>
    /\ UNCHANGED << extractVars, exportVars >>

\* forum_url = input(...) answered with the empty string: break
InputEmpty ==
    /\ pc = "input_url"
    /\ entered' = Append(entered, <<>>)
    /\ pc' = "loop_ended"
    /\ UNCHANGED << moodle_session, invoked, reported, discussions,
                    main_all_discussions, file, saveCalls, crawlVars, crawlHistory >>
    /\ UNCHANGED << extractVars, exportVars >>

\* forum_url without http:// or https:// in front: logged, continue
InputInvalid ==
    /\ pc = "input_url"
    /\ Len(entered) < MaxInputs
    /\ \E forum_url \in ForumInputs \ {<<>>} :
         /\ ~(startswith(forum_url, http) \/ startswith(forum_url, https))
         /\ entered' = Append(entered, forum_url)
    /\ pc' = "input_url"
    /\ UNCHANGED << moodle_session, invoked, reported, discussions,
                    main_all_discussions, file, saveCalls, crawlVars, crawlHistory >>
    /\ UNCHANGED << extractVars, exportVars >>

\* forum_url accepted: MoodleForumScraper(forum_url, ...) and the first lines
\* of scrape_forum; the forum behind the URL has some number of non-empty pages
InputForum ==
    /\ pc = "input_url"
    /\ Len(entered) < MaxInputs
    /\ \E forum_url \in ForumInputs \ {<<>>} :
         /\ startswith(forum_url, http) \/ startswith(forum_url, https)
         /\ entered' = Append(entered, forum_url)
         /\ base_url' = forum_url
         /\ invoked' = Append(invoked, forum_url)
    /\ \E P \in 0..MaxRunPages : forumP' = P
    /\ all_discussions' = <<>>
    /\ page' = 0
    /\ fetchCalls' = 0 /\ indexLog' = <<>> /\ linksSeen' = 0
    /\ pc' = "fetch_index"
    /\ UNCHANGED << moodle_session, reported, discussions, main_all_discussions,
                    file, saveCalls, discussion_links, link_i, lastEvent, lastFetch,
                    recOrder, recLast, discOrder >>
    /\ UNCHANGED << extractVars, exportVars >>

\* URLs of s that are not in seen, in order of first occurrence, after seen
RECURSIVE FirstSeen(_, _)
FirstSeen(seen, s) ==
    IF s = <<>> THEN seen
    ELSE IF \E k \in 1..Len(seen) : seen[k] = Head(s)
         THEN FirstSeen(seen, Tail(s))
         ELSE FirstSeen(Append(seen, Head(s)), Tail(s))

\* top of the while loop: fetch index page number `page`; a failed fetch or a
\* page without discussion links breaks and scrape_forum returns
FetchIndex ==
    /\ pc = "fetch_index"
    /\ \E resp \in Responses(IndexBodies(page, forumP)) :
         LET soup == get_page_content(resp)
             links == IF soup.ok THEN get_discussion_links(soup) ELSE <<>>
         IN  /\ lastFetch' = fetch_outcome(resp)
             /\ IF ~soup.ok \/ links = <<>>
                THEN \* break; return all_discussions: the locals of the call end here
                     /\ discussions' = all_discussions
                     /\ pc' = "returned"
                     /\ page' = 0
                     /\ discussion_links' = <<>>
                     /\ link_i' = 0
                     /\ all_discussions' = <<>>
                     /\ UNCHANGED << linksSeen, discOrder >>
                ELSE /\ discussion_links' = links
                     /\ link_i' = 1
                     /\ linksSeen' = linksSeen + Len(links)
                     /\ discOrder' = FirstSeen(discOrder, links)
                     /\ pc' = "visit"
                     /\ UNCHANGED << discussions, page, all_discussions >>
    /\ fetchCalls' = fetchCalls + 1
    /\ indexLog' = Append(indexLog, page)
    /\ lastEvent' = "index"
    /\ UNCHANGED << moodle_session, entered, invoked, reported, main_all_discussions,
                    file, saveCalls, forumP, base_url, recOrder, recLast >>
    /\ UNCHANGED << extractVars, exportVars >>

\* mutant: the posts are recorded even when there are none
record_Always(all, discussion_url, posts) == dict_set(all, discussion_url, posts)

\* if posts: all_discussions[discussion_url] = posts
record(all, discussion_url, posts) ==
    IF posts # <<>> THEN dict_set(all, discussion_url, posts) ELSE all

\* mutant: the delay is taken only after a visit that gave posts
Visit_SleepOnlyAfterPosts ==
    /\ pc = "visit"
    /\ \E resp \in Responses(CrawlBodies) :
         LET discussion_url == discussion_links[link_i]
             posts == extract_posts_from_discussion(resp)
         IN  /\ lastFetch' = fetch_outcome(resp)
             /\ all_discussions' = record(all_discussions, discussion_url, posts)
             /\ IF posts # <<>>
                THEN /\ recOrder' = IF \E k \in 1..Len(recOrder) : recOrder[k] = discussion_url
                                    THEN recOrder
                                    ELSE Append(recOrder, discussion_url)
                     /\ recLast' = [recLast EXCEPT ![discussion_url] = posts]
                     /\ pc' = "sleep"
                     /\ UNCHANGED << link_i, page >>
                ELSE /\ UNCHANGED << recOrder, recLast >>
                     /\ IF link_i < Len(discussion_links)
                        THEN link_i' = link_i + 1 /\ pc' = "visit" /\ page' = page
                        ELSE page' = page + 1 /\ pc' = "fetch_index" /\ link_i' = link_i
    /\ fetchCalls' = fetchCalls + 1
    /\ lastEvent' = "disc"
    /\ UNCHANGED << driverVars, discussion_links, forumP, base_url,
                    indexLog, linksSeen, discOrder >>
    /\ UNCHANGED << extractVars, exportVars >>

\* body of the for loop up to the sleep: extract the posts of the next
\* discussion and record them when there are any
Visit ==
    /\ pc = "visit"
    /\ \E resp \in Responses(CrawlBodies) :
         LET discussion_url == discussion_links[link_i]
             posts == extract_posts_from_discussion(resp)
         IN  /\ lastFetch' = fetch_outcome(resp)
             /\ all_discussions' = record(all_discussions, discussion_url, posts)
             /\ IF posts # <<>>
                THEN /\ recOrder' = IF \E k \in 1..Len(recOrder) : recOrder[k] = discussion_url
                                    THEN recOrder
                                    ELSE Append(recOrder, discussion_url)
                     /\ recLast' = [recLast EXCEPT ![discussion_url] = posts]
                ELSE UNCHANGED << recOrder, recLast >>
    /\ fetchCalls' = fetchCalls + 1
    /\ lastEvent' = "disc"
    /\ pc' = "sleep"
    /\ UNCHANGED << driverVars, page, discussion_links, link_i, forumP, base_url,
                    indexLog, linksSeen, discOrder >>
    /\ UNCHANGED << extractVars, exportVars >>

\* mutant: the page counter is not incremented after the last link
Sleep_SamePage ==
    /\ pc = "sleep"
    /\ lastEvent' = "sleep"
    /\ IF link_i < Len(discussion_links)
       THEN link_i' = link_i + 1 /\ pc' = "visit"
       ELSE link_i' = link_i /\ pc' = "fetch_index"
    /\ UNCHANGED << driverVars, page, discussion_links, all_discussions, forumP, base_url,
                    fetchCalls, indexLog, linksSeen, lastFetch, recOrder, recLast,
                    discOrder >>
    /\ UNCHANGED << extractVars, exportVars >>

\* mutant: the page counter is incremented once too often
Sleep_SkipsAPage ==
    /\ pc = "sleep"
    /\ lastEvent' = "sleep"
    /\ IF link_i < Len(discussion_links)
       THEN link_i' = link_i + 1 /\ pc' = "visit" /\ page' = page
       ELSE link_i' = link_i /\ pc' = "fetch_index" /\ page' = page + 2
    /\ UNCHANGED << driverVars, discussion_links, all_discussions, forumP, base_url,
                    fetchCalls, indexLog, linksSeen, lastFetch, recOrder, recLast,
                    discOrder >>
    /\ UNCHANGED << extractVars, exportVars >>

\* time.sleep(1), then the next link or, after the last one, page += 1
Sleep ==
    /\ pc = "sleep"
    /\ lastEvent' = "sleep"
    /\ IF link_i < Len(discussion_links)
       THEN /\ link_i' = link_i + 1
            /\ pc' = "visit"
            /\ UNCHANGED page
       ELSE /\ page' = page + 1
            /\ pc' = "fetch_index"
            /\ UNCHANGED link_i
    /\ UNCHANGED << driverVars, discussion_links, all_discussions, forumP, base_url,
                    fetchCalls, indexLog, linksSeen, lastFetch, recOrder, recLast,
                    discOrder >>
    /\ UNCHANGED << extractVars, exportVars >>

\* main has the result of the crawl: the per-crawl history is closed
CrawlOver ==
    /\ forumP' = 0
    /\ fetchCalls' = 0 /\ indexLog' = <<>> /\ linksSeen' = 0
    /\ lastEvent' = "none" /\ lastFetch' = "none"
    /\ UNCHANGED << page, discussion_links, link_i, all_discussions, base_url,
                    recOrder, recLast, discOrder >>

\* mutant: a forum without discussions ends the loop (break for continue)
NoDiscussionsFound_Break ==
    /\ pc = "returned"
    /\ discussions = <<>>
    /\ reported' = Append(reported, base_url)
    /\ pc' = "loop_ended"
    /\ CrawlOver
    /\ UNCHANGED << moodle_session, entered, invoked, discussions,
                    main_all_discussions, file, saveCalls >>
    /\ UNCHANGED << extractVars, exportVars >>

\* if not discussions: four error lines, continue
NoDiscussionsFound ==
    /\ pc = "returned"
    /\ discussions = <<>>
    /\ reported' = Append(reported, base_url)
    /\ pc' = "input_url"
    /\ CrawlOver
    /\ UNCHANGED << moodle_session, entered, invoked, discussions,
                    main_all_discussions, file, saveCalls >>
    /\ UNCHANGED << extractVars, exportVars >>

\* all_discussions.update(discussions)
Merge ==
    /\ pc = "returned"
    /\ discussions # <<>>
    /\ main_all_discussions' = dict_update(main_all_discussions, discussions)
    /\ pc' = "input_url"
    /\ discussions' = <<>>     \* not read again before the next crawl assigns it
    /\ CrawlOver
    /\ UNCHANGED << moodle_session, entered, invoked, reported, file, saveCalls >>
    /\ UNCHANGED << extractVars, exportVars >>

\* if not all_discussions: error line, return
NothingScraped ==
    /\ pc = "loop_ended"
    /\ main_all_discussions = <<>>
    /\ pc' = "done"
    /\ UNCHANGED << driverVars, crawlVars, crawlHistory >>
    /\ UNCHANGED << extractVars, exportVars >>

\* scraper.save_to_file(all_discussions, output_file); when the file cannot
\* be opened the OSError reaches the generic handler of main
SaveAll ==
    /\ pc = "loop_ended"
    /\ main_all_discussions # <<>>
    /\ saveCalls' = saveCalls + 1
    /\ \E opened \in BOOLEAN :
         IF opened
         THEN file' = File(save_to_file(main_all_discussions)) /\ pc' = "done"
         ELSE file' = file /\ pc' = "failed"
    /\ UNCHANGED << moodle_session, entered, invoked, reported, discussions,
                    main_all_discussions, crawlVars, crawlHistory >>
    /\ UNCHANGED << extractVars, exportVars >>

\* mutant: the interrupt handler saves what was merged so far
Interrupt_SavesPartial ==
    /\ pc \in {"input_cookie", "input_url", "fetch_index", "visit", "sleep",
               "returned", "loop_ended"}
    /\ pc' = "cancelled"
    /\ file' = IF main_all_discussions # <<>>
               THEN File(save_to_file(main_all_discussions)) ELSE file
    /\ saveCalls' = IF main_all_discussions # <<>> THEN saveCalls + 1 ELSE saveCalls
    /\ moodle_session' = <<>> /\ base_url' = <<>>
    /\ discussions' = <<>> /\ main_all_discussions' = <<>>
    /\ page' = 0 /\ discussion_links' = <<>> /\ link_i' = 0 /\ all_discussions' = <<>>
    /\ forumP' = 0
    /\ fetchCalls' = 0 /\ indexLog' = <<>> /\ linksSeen' = 0
    /\ lastEvent' = "none" /\ lastFetch' = "none"
    /\ UNCHANGED << entered, invoked, reported, recOrder, recLast, discOrder >>
    /\ UNCHANGED << extractVars, exportVars >>

\* Ctrl+C at a prompt, during a crawl or between the loop and the save:
\* except KeyboardInterrupt logs and main returns
Interrupt ==
    /\ pc \in {"input_cookie", "input_url", "fetch_index", "visit", "sleep",
               "returned", "loop_ended"}
    /\ pc' = "cancelled"
    \* main returns from the handler: its locals and those of a running
    \* scrape_forum are gone, nothing was written
    /\ moodle_session' = <<>> /\ base_url' = <<>>
    /\ discussions' = <<>> /\ main_all_discussions' = <<>>
    /\ page' = 0 /\ discussion_links' = <<>> /\ link_i' = 0 /\ all_discussions' = <<>>
    /\ forumP' = 0
    /\ fetchCalls' = 0 /\ indexLog' = <<>> /\ linksSeen' = 0
    /\ lastEvent' = "none" /\ lastFetch' = "none"
    /\ UNCHANGED << entered, invoked, reported, file, saveCalls, recOrder, recLast,
                    discOrder >>
    /\ UNCHANGED << extractVars, exportVars >>

CrawlStep == FetchIndex \/ Visit \/ Sleep

\* One call of scrape_forum on its own: the state main is in after the cookie
\* and a first forum URL were accepted
InitCrawl ==
    /\ pc = "fetch_index"
    /\ moodle_session = <<"c">>
    /\ base_url = http \o <<"a">>
    /\ entered = << base_url >> /\ invoked = << base_url >> /\ reported = <<>>
    /\ forumP \in 0..MaxPages
    /\ page = 0
    /\ discussion_links = <<>> /\ link_i = 0
    /\ all_discussions = <<>> /\ discussions = <<>> /\ main_all_discussions = <<>>
    /\ file = NoFile /\ saveCalls = 0
    /\ fetchCalls = 0 /\ indexLog = <<>> /\ linksSeen = 0
    /\ lastEvent = "none" /\ lastFetch = "none"
    /\ recOrder = <<>> /\ recLast = [u \in DiscussionURLs |-> <<>>]
    /\ discOrder = <<>>
    /\ ExtractIdle /\ ExportIdle

NextCrawl ==
    \/ FetchIndex
    \/ Visit
    \/ Sleep
    \/ Interrupt

SpecCrawl == InitCrawl /\ [][NextCrawl]_vars

\* the program is one thread that keeps running: a crawl that can step does
FairSpecCrawl == SpecCrawl /\ WF_vars(CrawlStep)

Next ==
    \/ InputCookie
    \/ InputEmpty
    \/ InputInvalid
    \/ InputForum
    \/ FetchIndex
    \/ Visit
    \/ Sleep
    \/ NoDiscussionsFound
    \/ Merge
    \/ NothingScraped
    \/ SaveAll
    \/ Interrupt

Spec == Init /\ [][Next]_vars

(***************************************************************************)
(* Claims about one crawl (SpecCrawl, FairSpecCrawl)                       *)
(***************************************************************************)

\* C1 as stated: scrape_forum, run against a forum with P non-empty index
\* pages followed by an empty one, has made at most P+1 calls of
\* get_page_content when it returns.
C1_AtMostPPlusOneFetchCalls ==
    pc = "returned" => fetchCalls <= forumP + 1

\* C1 amended: scrape_forum reaches its terminal state (it returns, or the
\* operator interrupts it); when it returns it has fetched at most P+1 index
\* pages, exactly P+1 when no fetch failed, and its calls of get_page_content
\* are those index fetches plus one per discussion link found.
C1_Termination ==
    /\ (pc = "fetch_index") ~> (pc \in {"returned", "cancelled"})
    /\ [](pc = "returned" =>
            /\ Len(indexLog) <= forumP + 1
            /\ (lastFetch = "ok" => Len(indexLog) = forumP + 1)
            /\ fetchCalls = Len(indexLog) + linksSeen)

\* a forum with two non-empty pages was crawled to its empty page
C1_Witness ==
    /\ pc = "returned" /\ forumP = 2 /\ lastFetch = "ok"
    /\ Len(indexLog) = 3 /\ fetchCalls > 3

\* C3: a failed fetch of a discussion page records nothing and changes no
\* other entry of the mapping; the crawler sleeps and goes on to the next
\* link, or after the last link to the next index page.
C3_FailedDiscussionSkipped ==
    [][ /\ (pc = "visit" /\ lastFetch' \in {"error", "login"})
           => (pc' = "sleep" /\ all_discussions' = all_discussions)
        /\ (pc = "sleep" /\ pc' # "cancelled")
           => IF link_i < Len(discussion_links)
              THEN pc' = "visit" /\ link_i' = link_i + 1 /\ page' = page
              ELSE pc' = "fetch_index" /\ page' = page + 1
      ]_vars

\* two links, the fetch of the second one ended on the login page: the mapping
\* holds the first discussion only and the crawler is about to fetch index
\* page 1
C3_Witness ==
    /\ pc = "fetch_index" /\ page = 1
    /\ Len(discussion_links) = 2
    /\ lastFetch = "login"
    /\ Keys(all_discussions) = << discussion_links[1] >>

\* C4: index pages are fetched in the order 0, 1, 2, ... without gap or
\* repetition; the first index page whose fetch fails or that has no
\* discussion link ends the crawl: scrape_forum returns the mapping built so
\* far, unchanged, and fetches nothing more.
C4_IndexOrderAndStop ==
    /\ [](indexLog = [k \in 1..Len(indexLog) |-> k - 1])
    /\ [](pc = "returned" => lastEvent = "index" /\ page = 0 /\ discussion_links = <<>>)
    /\ [][ (pc = "fetch_index" /\ pc' # "cancelled")
           => /\ indexLog' = Append(indexLog, page)
              /\ IF lastFetch' \in {"error", "login"} \/ linksSeen' = linksSeen
                 THEN /\ pc' = "returned"
                      /\ discussions' = all_discussions
                 ELSE /\ pc' = "visit"
                      /\ all_discussions' = all_discussions
      ]_vars

\* the crawl stopped on a failed fetch of index page 1 and returned what the
\* discussions of page 0 gave
C4_Witness ==
    /\ pc = "returned" /\ indexLog = <<0, 1>>
    /\ lastFetch = "error"
    /\ discussions # <<>>

\* C8: every discussion visit, whatever its outcome, is followed by exactly
\* one sleep before the next call of get_page_content.
C8_DelayAfterEveryVisit ==
    [][ /\ fetchCalls' = fetchCalls + 1 => lastEvent # "disc"
        /\ (lastEvent = "disc" /\ pc' # "cancelled") => lastEvent' = "sleep"
        /\ lastEvent = "sleep" => lastEvent' # "sleep"
      ]_vars

\* the delay ran after a visit whose fetch failed, and the next fetch is due
C8_Witness ==
    /\ lastEvent = "sleep" /\ lastFetch = "error"
    /\ pc \in {"visit", "fetch_index"}

(***************************************************************************)
(* extract_posts_from_discussion, one loop iteration per step (SpecExtract)*)
(***************************************************************************)
RawContent == <<" ", "x", "\n">>
RawTitle == <<"t", " ">>
RawAuthor == <<"a">>
RawDatetime == <<"d">>

Headers ==
    {NoHeader} \cup
    {Header(t, a, d) : t \in {Missing, El(RawTitle)},
                       a \in {Missing, El(RawAuthor)},
                       d \in {NoTime, TimeEl(FALSE, <<>>), TimeEl(TRUE, RawDatetime)}}

Containers == {Container(c, h) : c \in {Missing, El(RawContent)}, h \in Headers}

\* discussion pages of at most n post containers
ExtractBodies(n) == SeqsUpTo(Containers, n)

InitExtract ==
    /\ MainIdle /\ ExportIdle
    /\ x_pc = "fetch"
    /\ x_resp \in Responses(ExtractBodies(MaxContainers))
    /\ x_k = 0 /\ x_posts = <<>> /\ x_log = <<>>

\* soup = self.get_page_content(url); if not soup: return []
ExtractFetch ==
    /\ x_pc = "fetch"
    /\ IF get_page_content(x_resp).ok
       THEN x_pc' = "loop" /\ x_k' = 1
       ELSE x_pc' = "done" /\ x_k' = x_k
    /\ UNCHANGED << x_resp, x_posts, x_log >>
    /\ UNCHANGED << mainVars, exportVars >>

\* one iteration of: for post_article in soup.select(...)
ExtractContainer ==
    /\ x_pc = "loop"
    /\ x_k <= Len(x_resp.body)
    /\ LET r == extract_post(x_resp.body[x_k])
       IN  /\ x_posts' = IF r.added THEN Append(x_posts, r.post) ELSE x_posts
           /\ x_log' = Append(x_log, r.log)
    /\ x_k' = x_k + 1
    /\ UNCHANGED << x_pc, x_resp >>
    /\ UNCHANGED << mainVars, exportVars >>

\* return posts
ExtractReturn ==
    /\ x_pc = "loop"
    /\ x_k > Len(x_resp.body)
    /\ x_pc' = "done"
    /\ UNCHANGED << x_resp, x_k, x_posts, x_log >>
    /\ UNCHANGED << mainVars, exportVars >>

NextExtract ==
    \/ ExtractFetch
    \/ ExtractContainer
    \/ ExtractReturn

SpecExtract == InitExtract /\ [][NextExtract]_vars

(***************************************************************************)
(* Claims about the extraction (SpecExtract)                               *)
(***************************************************************************)
AllPresent(c) ==
    /\ c.post_content.found
    /\ c.header.found
    /\ c.header.title.found
    /\ c.header.author_link.found
    /\ c.header.date.found

Processed == SubSeq(x_resp.body, 1, x_k - 1)

\* C2: of a fetched discussion page exactly the containers with content
\* element, header, title element, author link and timestamp element yield a
\* post, in page order; every other container lowers the count by one and
\* changes nothing else; the date of a post is the datetime attribute, or the
\* empty string when the timestamp element has none.
C2_ExactlyTheCompleteContainers ==
    x_pc \in {"loop", "done"} =>
        LET complete == SelectSeq(Processed, AllPresent)
            skipped == {k \in 1..Len(Processed) : ~AllPresent(Processed[k])}
        IN  /\ Len(x_posts) = Len(complete)
            /\ Len(x_posts) = Len(Processed) - Cardinality(skipped)
            /\ \A k \in 1..Len(complete) :
                 /\ x_posts[k].title = get_text(complete[k].header.title)
                 /\ x_posts[k].author = get_text(complete[k].header.author_link)
                 /\ x_posts[k].content = get_text(complete[k].post_content)
                 /\ x_posts[k].date = IF complete[k].header.date.has_datetime
                                      THEN complete[k].header.date.datetime
                                      ELSE <<>>
            /\ (x_pc = "done" /\ get_page_content(x_resp).ok) => x_k = Len(x_resp.body) + 1

\* the first container has no author link, the second one is complete but its
\* time element has no datetime attribute: one post, with an empty date
C2_Witness ==
    /\ x_pc = "done"
    /\ Len(x_resp.body) = 2
    /\ ~x_resp.body[1].header.author_link.found /\ x_resp.body[1].header.date.found
    /\ AllPresent(x_resp.body[2]) /\ ~x_resp.body[2].header.date.has_datetime
    /\ Len(x_posts) = 1 /\ x_posts[1].date = <<>> /\ x_posts[1].title = <<"t">>

\* C7 as stated: every container left out of the result has a warning logged
\* for it, and only those; the loop runs over every container.
C7_WarningForEverySkipped ==
    x_pc = "done" /\ get_page_content(x_resp).ok =>
        /\ Len(x_log) = Len(x_resp.body)
        /\ \A k \in 1..Len(x_log) :
             ~AllPresent(x_resp.body[k]) <=> x_log[k] = "warning"

(***************************************************************************)
(* Re-reading the output file by its documented block format               *)
(***************************************************************************)
\* the lines of a text from position k on, each without its line break
RECURSIVE SplitLines(_, _)
SplitLines(text, k) ==
    IF k > Len(text) THEN <<>>
    ELSE LET breaks == {j \in k..Len(text) : text[j] = "\n"}
         IN  IF breaks = {} THEN << SubSeq(text, k, Len(text)) >>
             ELSE LET b == CHOOSE j \in breaks : \A i \in breaks : j <= i
                  IN  << SubSeq(text, k, b - 1) >> \o SplitLines(text, b + 1)

AfterPrefix(line, prefix) == SubSeq(line, Len(prefix) + 1, Len(line))

Unreadable == [ok |-> FALSE, discussions |-> <<>>]

HeaderLines == 5
PostHeadLines == 4
PostTailLines == 3

Rule(c, n) == [k \in 1..n |-> c]

RECURSIVE JoinLines(_)
JoinLines(lines) ==
    IF Len(lines) = 1 THEN lines[1]
    ELSE lines[1] \o <<"\n">> \o JoinLines(Tail(lines))

IsHeaderAt(lines) ==
    /\ Len(lines) >= HeaderLines
    /\ lines[1] = <<>>
    /\ lines[2] = Rule("=", DiscussionRule)
    /\ startswith(lines[3], L_URL)
    /\ lines[4] = Rule("=", DiscussionRule)
    /\ lines[5] = <<>>

\* the ends j of a content that starts on line 5: an empty line, the post
\* rule and another empty line follow line j
ContentEnds(lines) ==
    {j \in (PostHeadLines + 1)..(Len(lines) - PostTailLines) :
        /\ lines[j + 1] = <<>>
        /\ lines[j + 2] = Rule("-", PostRule)
        /\ lines[j + 3] = <<>>}

IsPostAt(lines) ==
    /\ Len(lines) >= PostHeadLines + 1 + PostTailLines
    /\ startswith(lines[1], L_Title)
    /\ startswith(lines[2], L_Author)
    /\ startswith(lines[3], L_Date)
    /\ lines[4] = L_Content
    /\ ContentEnds(lines) # {}

\* lines: what is left to read; acc: the discussions read so far, the last of
\* them still open for posts; a content runs up to the first post rule
RECURSIVE read_blocks(_, _)
read_blocks(lines, acc) ==
    IF lines = <<>> THEN [ok |-> TRUE, discussions |-> acc]
    ELSE IF IsHeaderAt(lines)
    THEN read_blocks(SubSeq(lines, HeaderLines + 1, Len(lines)),
                     Append(acc, [url |-> AfterPrefix(lines[3], L_URL), posts |-> <<>>]))
    ELSE IF acc # <<>> /\ IsPostAt(lines)
    THEN LET j == CHOOSE j \in ContentEnds(lines) : \A i \in ContentEnds(lines) : j <= i
             post == ForumPost(AfterPrefix(lines[1], L_Title),
                               JoinLines(SubSeq(lines, PostHeadLines + 1, j)),
                               AfterPrefix(lines[2], L_Author),
                               AfterPrefix(lines[3], L_Date))
             n == Len(acc)
         IN  read_blocks(SubSeq(lines, j + PostTailLines + 1, Len(lines)),
                         [acc EXCEPT ![n].posts = Append(acc[n].posts, post)])
    ELSE Unreadable

read_export(text) == read_blocks(SplitLines(text, 1), <<>>)

(***************************************************************************)
(* save_to_file over every bounded mapping (SpecExport)                    *)
(***************************************************************************)
ExportTitles == {<<"a">>, <<"b">>, <<"a", "\n">> \o L_Author \o <<"a">>}
ExportAuthors == {<<"a">>, <<"a", "\n">> \o L_Author \o <<"a">>}
ExportDates == {<<>>, <<"d">>}
ExportContents ==
    {<<>>, <<"x">>, <<"x", "\n", "y">>, <<"x", "\n", "\n">> \o Rep("-", PostRule)}

ExportPosts ==
    {ForumPost(t, c, a, d) : t \in ExportTitles, c \in ExportContents,
                             a \in ExportAuthors, d \in ExportDates}

SeqsOfLen(S, n) == {q \in SeqsUpTo(S, n) : Len(q) = n}

\* mappings of at most two discussions holding at most n posts
ExportResults(n) ==
    LET One == {<< [url |-> u, posts |-> ps] >> :
                   u \in DiscussionURLs, ps \in SeqsUpTo(ExportPosts, n)}
        Two(i, j) == {<< [url |-> u, posts |-> ps], [url |-> v, posts |-> qs] >> :
                         u \in DiscussionURLs, v \in DiscussionURLs,
                         ps \in SeqsOfLen(ExportPosts, i), qs \in SeqsOfLen(ExportPosts, j)}
        Twos == UNION {UNION {Two(i, j) : j \in 0..(n - i)} : i \in 0..n}
    IN  {<<>>} \cup One \cup {d \in Twos : d[1].url # d[2].url}

InitExport ==
    /\ MainIdle /\ ExtractIdle
    /\ e_pc = "ready"
    /\ e_discussions \in ExportResults(MaxExportPosts)
    /\ e_file = NoFile

Export ==
    /\ e_pc = "ready"
    /\ e_file' = File(save_to_file(e_discussions))
    /\ e_pc' = "written"
    /\ UNCHANGED e_discussions
    /\ UNCHANGED << mainVars, extractVars >>

NextExport == Export

SpecExport == InitExport /\ [][NextExport]_vars

(***************************************************************************)
(* Claims about the export (SpecExport)                                    *)
(***************************************************************************)

HasRuleLine(text) ==
    \E k \in 1..Len(text) :
        /\ k + PostRule - 1 <= Len(text)
        /\ k = 1 \/ text[k - 1] = "\n"
        /\ \A j \in k..(k + PostRule - 1) : text[j] = "-"
        /\ k + PostRule - 1 = Len(text) \/ text[k + PostRule] = "\n"

Readable(d) ==
    \A k \in 1..Len(d) :
        /\ ~HasLineBreak(d[k].url)
        /\ \A j \in 1..Len(d[k].posts) :
             LET post == d[k].posts[j]
             IN  /\ ~HasLineBreak(post.title) /\ ~HasLineBreak(post.author)
                 /\ ~HasLineBreak(post.date)
                 /\ ~HasRuleLine(post.content)
                 /\ \A i \in 1..Len(post.content) : post.content[i] # "\r"

NonEmptyInput(u) == u # <<>>

HttpURL(u) ==
    \/ Len(u) >= 7 /\ [k \in 1..7 |-> u[k]] = <<"h","t","t","p",":","/","/">>
    \/ Len(u) >= 8 /\ [k \in 1..8 |-> u[k]] = <<"h","t","t","p","s",":","/","/">>

\* the empty answer is given at most once, as the last one, and ends the loop
EmptyInputEndsLoop ==
    /\ \A k \in 1..Len(entered) : entered[k] = <<>> => k = Len(entered)
    /\ (entered # <<>> /\ entered[Len(entered)] = <<>>)
          => pc \in {"loop_ended", "done", "failed", "cancelled"}
    /\ pc \in {"loop_ended", "failed"} => (entered # <<>> /\ entered[Len(entered)] = <<>>)

\* a crawl that returned is followed by the next prompt, with the merged
\* mapping untouched when the crawl gave nothing
ForumSkippedOrMerged ==
    (pc = "returned" /\ pc' # "cancelled") =>
        /\ pc' = "input_url"
        /\ IF discussions = <<>>
           THEN /\ reported' = Append(reported, base_url)
                /\ main_all_discussions' = main_all_discussions
           ELSE /\ reported' = reported
                /\ \A k \in 1..Len(discussions) :
                     /\ HasKey(main_all_discussions', discussions[k].url)
                     /\ Lookup(main_all_discussions', discussions[k].url)
                           = discussions[k].posts
                /\ \A k \in 1..Len(main_all_discussions) :
                     HasKey(main_all_discussions', main_all_discussions[k].url)

\* C6 as stated: the crawler is invoked exactly once, in input order, for
\* every forum URL entered before the first empty input.
C6_InvokedForEveryInput ==
    /\ invoked = SelectSeq(entered, NonEmptyInput)
    /\ EmptyInputEndsLoop

\* C6 amended: the crawler is invoked exactly once, in input order, for every
\* entered forum URL that starts with http:// or https:// (any other
\* non-empty input is logged as invalid and the prompt repeats), never for
\* the empty input, which ends the loop; a forum that yielded nothing is
\* reported and skipped without ending the loop, and the results of the
\* other forums stay in the merged mapping.
C6_InvokedForEveryHttpInput ==
    /\ [](invoked = SelectSeq(entered, HttpURL))
    /\ []EmptyInputEndsLoop
    /\ [][ForumSkippedOrMerged]_vars

\* the first forum yielded nothing and was reported, the second one was still
\* crawled and its discussions are in the merged mapping
C6_Witness ==
    /\ pc = "input_url"
    /\ Len(invoked) = 2 /\ invoked[1] # invoked[2]
    /\ reported = << invoked[1] >>
    /\ main_all_discussions # <<>>

Recorded(u) == \E k \in 1..Len(recOrder) : recOrder[k] = u

\* the mapping with the given key order and, per key, the posts last recorded
LastWriteWins(order) ==
    [k \in 1..Len(order) |-> [url |-> order[k], posts |-> recLast[order[k]]]]

\* the blocks of the given URLs, in that order
Blocks(order) ==
    Concat([k \in 1..Len(order) |-> write_discussion(order[k], recLast[order[k]])])

MergedIs(order) ==
    /\ pc \in {"input_url", "loop_ended"}
          => main_all_discussions = LastWriteWins(order)
    /\ pc \in {"fetch_index", "visit", "sleep"}
          => dict_update(main_all_discussions, all_discussions) = LastWriteWins(order)
    /\ pc = "returned"
          => dict_update(main_all_discussions, discussions) = LastWriteWins(order)
    /\ file.written => file.text = Blocks(order)

\* C9 as stated: the merged mapping has one entry per recorded URL, holding
\* the posts of its last non-empty recording, and the entries, like the blocks
\* of the file, are in the order of first discovery of the URLs.
C9_FirstDiscoveredFirstWritten ==
    MergedIs(SelectSeq(discOrder, Recorded))

\* C9 amended: the merged mapping has one entry per recorded URL, holding the
\* posts of its last non-empty recording, and the entries, like the blocks of
\* the file, are in the order in which the URLs were first recorded with a
\* non-empty post sequence (a URL discovered earlier but first recorded later
\* comes later).
C9_FirstRecordedFirstWritten ==
    MergedIs(recOrder)

\* a crawl returned posts for a URL that the merged mapping already holds
\* with other posts: the merge is about to overwrite them in place
C9_Witness ==
    /\ pc = "returned"
    /\ Len(main_all_discussions) = 2
    /\ LET u == main_all_discussions[1].url
       IN  /\ HasKey(discussions, u)
           /\ Lookup(discussions, u) # main_all_discussions[1].posts
           /\ recLast[u] = Lookup(discussions, u)

\* C10: save_to_file is called at most once, after the loop ended on the
\* empty input and only with a non-empty merged mapping; after an interrupt,
\* or when no forum yielded a discussion, no file is written and the results
\* are gone.
C10_SaveOnlyAfterLoop ==
    /\ saveCalls <= 1
    /\ saveCalls = 1 =>
          /\ pc \in {"done", "failed"}
          /\ entered # <<>> /\ entered[Len(entered)] = <<>>
          /\ main_all_discussions # <<>>
    /\ file.written => (saveCalls = 1 /\ pc = "done")
    /\ pc = "cancelled" =>
          (saveCalls = 0 /\ ~file.written /\ main_all_discussions = <<>>)
    /\ recOrder = <<>> => ~file.written

\* the operator interrupted the second crawl: the discussions of the first
\* forum had been merged, nothing was written
C10_Witness ==
    /\ pc = "cancelled"
    /\ Len(entered) = 2 /\ Len(invoked) = 2 /\ reported = <<>>
    /\ recOrder # <<>>
    /\ ~file.written

====
